---- MODULE Spec2Model ----
(***************************************************************************)
(* Model of two compilation paths of the agent:                            *)
(*   - agent/inventory/inventory.go: the scheduled inventory cycle         *)
(*     (ApplyInventoryPolicy, VerifyAndRunGatherers,                       *)
(*     VerifyInventoryDataSize);                                           *)
(*   - agent/association/parser/parser.go: the association document        *)
(*     compiler (ParseDocumentWithParams, InitializeDocumentState,         *)
(*     newDocumentInfo, buildPluginsInfo).                                 *)
(* The two paths do not call each other; each has its own specification    *)
(* (InventorySpec, ParserSpec) over its own variables.                     *)
(***************************************************************************)
EXTENDS Integers, Sequences, FiniteSets, TLC

VARIABLES
    \* ---- inventory plugin ----
    fileState,            \* what the file system answers for the policy doc
    declared,             \* gatherer names in the order the policy file lists them
    registeredGatherers,  \* Plugin.registeredGatherers: name -> what Run returns
    pc,                   \* position inside one ApplyInventoryPolicy cycle
    pending,              \* keys of policy.InventoryPolicy not yet ranged over
    items,                \* VerifyAndRunGatherers' named result `items`
    err,                  \* VerifyAndRunGatherers' named result `err` ("" is nil)
    lookups,              \* names looked up in the registry, in order
    runs,                 \* names whose gatherer.Run was invoked, in order
    convertCalls,         \* calls of uploader.ConvertToSsmInventoryItems this cycle
    sendCalls,            \* calls of uploader.SendDataToSSM this cycle
    \* ---- association parser ----
    rawData,              \* *model.InstanceAssociation
    now,                  \* times.DefaultClock.Now(), in milliseconds
    ppc,                  \* position inside one compile
    payload,              \* *messageContracts.SendCommandPayload
    docState              \* stateModel.DocumentState

invVars == <<fileState, declared, registeredGatherers, pc, pending, items, err,
             lookups, runs, convertCalls, sendCalls>>
parserVars == <<rawData, now, ppc, payload, docState>>
vars == <<fileState, declared, registeredGatherers, pc, pending, items, err,
          lookups, runs, convertCalls, sendCalls,
          rawData, now, ppc, payload, docState>>

Nil == [nil |-> TRUE]

Range(s) == {s[i] : i \in 1..Len(s)}

NoDuplicates(s) == \A i, j \in 1..Len(s) : i # j => s[i] # s[j]

(***************************************************************************)
(*                              INVENTORY                                  *)
(***************************************************************************)

\* Gatherer names a policy document or the registry may mention.
GathererNames == {"app", "net", "win"}

\* Largest number of gatherers one policy document names.
MaxPolicyLen == 2

\* Lengths, in bytes, of fmt.Sprintf("%s", item) for the items gatherers return.
ItemSizes == {500, 2000, 2500}

\* inventory.SizeLimitKBPerInventoryType and inventory.TotalSizeLimitKB are
\* declared in package agent/inventory/model; the values here are small so
\* that both limits are within reach of ItemSizes.
SizeLimitKBPerInventoryType == 2
TotalSizeLimitKB == 4

\* What a registered gatherer's Run returns: an error, or an item whose
\* rendering has the given length.
GathererBehaviours ==
    {[fails |-> TRUE, size |-> 0]} \cup {[fails |-> FALSE, size |-> s] : s \in ItemSizes}

Registries ==
    UNION {[S -> GathererBehaviours] : S \in SUBSET GathererNames}

\* Policy documents: JSON objects, so the names are distinct.
Declarations ==
    {s \in UNION {[1..n -> GathererNames] : n \in 0..MaxPolicyLen} : NoDuplicates(s)}

FileStates == {"absent", "unreadable", "undecodable", "ok"}

RECURSIVE SumSizes(_)
SumSizes(its) ==
    IF its = <<>> THEN 0 ELSE its[1].size + SumSizes(Tail(its))

\* len([]byte(fmt.Sprintf("%s", items))): a slice renders as "[" e1 " " e2 ... "]".
SliceSize(its) ==
    2 + SumSizes(its) + (IF Len(its) > 0 THEN Len(its) - 1 ELSE 0)

VerifyInventoryDataSize_NoTotal(item, its) ==
    ~ (item.size > 1000 * SizeLimitKBPerInventoryType)

\* (size/1000) > limit in float32 is size > 1000*limit for every size that a
\* float32 holds exactly (below 2^24 bytes, far above both limits).
VerifyInventoryDataSize(item, its) ==
    LET itemSize == item.size
        itemsSize == SliceSize(its)
    IN  ~ (itemSize > 1000 * SizeLimitKBPerInventoryType
           \/ itemsSize > 1000 * TotalSizeLimitKB)

\* datauploader.ConvertToSsmInventoryItems: one ssm.InventoryItem per item.
ConvertToSsmInventoryItems(its) ==
    [i \in 1..Len(its) |-> [TypeName |-> its[i].name, ContentLen |-> its[i].size]]

CycleReset ==
    /\ pending = {}
    /\ items = <<>>
    /\ err = ""
    /\ lookups = <<>>
    /\ runs = <<>>
    /\ convertCalls = <<>>
    /\ sendCalls = <<>>

ParserIdle ==
    /\ rawData = Nil
    /\ now = 0
    /\ ppc = "off"
    /\ payload = Nil
    /\ docState = Nil

InventoryInit ==
    /\ fileState \in FileStates
    /\ declared \in (IF fileState = "ok" THEN Declarations ELSE {<<>>})
    /\ registeredGatherers \in Registries
    /\ pc = "idle"
    /\ CycleReset
    /\ ParserIdle

\* ApplyInventoryPolicy up to the call of VerifyAndRunGatherers: the file
\* must exist, be read and be decoded, else the cycle ends here.
ApplyInventoryPolicy_SkipGuard ==
    /\ pc = "idle"
    /\ pending' = Range(declared)
    /\ pc' = IF fileState \in {"absent", "unreadable"} THEN "done"
             ELSE IF Range(declared) = {} THEN "returned" ELSE "gathering"
    /\ UNCHANGED <<fileState, declared, registeredGatherers, items, err, lookups,
                   runs, convertCalls, sendCalls>>

ApplyInventoryPolicy ==
    /\ pc = "idle"
    /\ IF fileState # "ok"
       THEN /\ pc' = "done"
            /\ UNCHANGED pending
       ELSE /\ pending' = Range(declared)
            /\ pc' = IF Range(declared) = {} THEN "returned" ELSE "gathering"
    /\ UNCHANGED <<fileState, declared, registeredGatherers, items, err, lookups,
                   runs, convertCalls, sendCalls>>

\* One iteration of `for name, _ := range policy.InventoryPolicy`, whose
\* order over the map's keys the language leaves open, with a `continue`
\* where the code breaks on an unregistered gatherer.
VerifyAndRunGatherers_Continue ==
    /\ pc = "gathering"
    /\ \E name \in pending :
         /\ pending' = pending \ {name}
         /\ lookups' = Append(lookups, name)
         /\ IF name \notin DOMAIN registeredGatherers
            THEN /\ err' = "Unrecognized inventory gatherer"
                 /\ pc' = IF pending' = {} THEN "returned" ELSE "gathering"
                 /\ UNCHANGED <<items, runs>>
            ELSE /\ runs' = Append(runs, name)
                 /\ IF registeredGatherers[name].fails
                    THEN /\ err' = "Encountered error while executing"
                         /\ pc' = "returned"
                         /\ UNCHANGED items
                    ELSE LET item == [name |-> name, size |-> registeredGatherers[name].size]
                         IN  /\ items' = Append(items, item)
                             /\ IF ~ VerifyInventoryDataSize(item, items')
                                THEN /\ err' = "Size limit exceeded"
                                     /\ pc' = "returned"
                                ELSE /\ err' = err
                                     /\ pc' = IF pending' = {} THEN "returned"
                                              ELSE "gathering"
    /\ UNCHANGED <<fileState, declared, registeredGatherers, convertCalls, sendCalls>>

\* One iteration of `for name, _ := range policy.InventoryPolicy`: the range
\* is over a map, so the next key is any key not yet visited.  The loop ends
\* at a break or when every key was visited; then `return items, err`.
VerifyAndRunGatherers ==
    /\ pc = "gathering"
    /\ \E name \in pending :
         /\ pending' = pending \ {name}
         /\ lookups' = Append(lookups, name)
         /\ IF name \notin DOMAIN registeredGatherers
            THEN /\ err' = "Unrecognized inventory gatherer"
                 /\ pc' = "returned"
                 /\ UNCHANGED <<items, runs>>
            ELSE /\ runs' = Append(runs, name)
                 /\ IF registeredGatherers[name].fails
                    THEN /\ err' = "Encountered error while executing"
                         /\ pc' = "returned"
                         /\ UNCHANGED items
                    ELSE LET item == [name |-> name, size |-> registeredGatherers[name].size]
                         IN  /\ items' = Append(items, item)
                             /\ IF ~ VerifyInventoryDataSize(item, items')
                                THEN /\ err' = "Size limit exceeded"
                                     /\ pc' = "returned"
                                ELSE /\ err' = err
                                     /\ pc' = IF pending' = {} THEN "returned"
                                              ELSE "gathering"
    /\ UNCHANGED <<fileState, declared, registeredGatherers, convertCalls, sendCalls>>

\* ApplyInventoryPolicy after VerifyAndRunGatherers returned: on an error the
\* cycle ends; otherwise the items are converted and, whatever the
\* conversion answered, inventoryItems is sent (nil after a failed
\* conversion).
ApplyInventoryPolicyUpload ==
    /\ pc = "returned"
    /\ IF err # ""
       THEN UNCHANGED <<convertCalls, sendCalls>>
       ELSE \E convErr \in BOOLEAN :
              LET inventoryItems == IF convErr THEN <<>>
                                    ELSE ConvertToSsmInventoryItems(items)
              IN  /\ convertCalls' = Append(convertCalls, [arg |-> items, failed |-> convErr])
                  /\ sendCalls' = Append(sendCalls, inventoryItems)
    /\ pc' = "done"
    /\ UNCHANGED <<fileState, declared, registeredGatherers, pending, items, err,
                   lookups, runs>>

\* scheduler.Every(frequencyInMinutes).Minutes().Run(ApplyInventoryPolicy):
\* the next cycle; the policy file may have changed, the registry has not.
SchedulerTick ==
    /\ pc = "done"
    /\ fileState' \in FileStates
    /\ declared' \in (IF fileState' = "ok" THEN Declarations ELSE {<<>>})
    /\ pc' = "idle"
    /\ pending' = {}
    /\ items' = <<>>
    /\ err' = ""
    /\ lookups' = <<>>
    /\ runs' = <<>>
    /\ convertCalls' = <<>>
    /\ sendCalls' = <<>>
    /\ UNCHANGED registeredGatherers

InventoryNext ==
    \/ ApplyInventoryPolicy /\ UNCHANGED parserVars
    \/ VerifyAndRunGatherers /\ UNCHANGED parserVars
    \/ ApplyInventoryPolicyUpload /\ UNCHANGED parserVars
    \/ SchedulerTick /\ UNCHANGED parserVars

InventorySpec == InventoryInit /\ [][InventoryNext]_vars

(***************************************************************************)
(*                     INVENTORY: properties                               *)
(***************************************************************************)

Returned == pc = "returned"

Registered(name) == name \in DOMAIN registeredGatherers

\* The k-th append left the batch within both limits.
AppendWithinLimits(k) ==
    /\ items[k].size <= 1000 * SizeLimitKBPerInventoryType
    /\ SliceSize(SubSeq(items, 1, k)) <= 1000 * TotalSizeLimitKB

\* C1: whenever VerifyAndRunGatherers returns an error, the batch it returns
\* with that error is empty.
C1_EmptyBatchOnError ==
    (Returned /\ err # "") => items = <<>>

\* C2 (as stated): the gatherers are looked up in the order in which the
\* policy document declares them.
C2_DeclaredOrder ==
    \A i \in 1..Len(lookups) : lookups[i] = declared[i]

\* C2 (amended): the gatherers are looked up and invoked one at a time, each
\* policy entry at most once, in whatever order the map iteration yields;
\* Run is invoked exactly on the registered names looked up, in lookup
\* order; every lookup but the last went through without failure, and once
\* an error is set the loop has ended.  A run without error visited every
\* policy entry.
C2_SequentialUnspecifiedOrder ==
    /\ NoDuplicates(lookups)
    /\ Range(lookups) \subseteq Range(declared)
    /\ runs = SelectSeq(lookups, Registered)
    /\ \A i \in 1..(Len(lookups) - 1) :
         /\ Registered(lookups[i])
         /\ ~ registeredGatherers[lookups[i]].fails
         /\ items[i].name = lookups[i]
         /\ AppendWithinLimits(i)
    /\ err # "" => pc \in {"returned", "done"}
    /\ (Returned /\ err = "") => Range(lookups) = Range(declared)

C2_Witness ==
    /\ Returned
    /\ err # ""
    /\ Len(lookups) = 2
    /\ lookups[1] = declared[2]

\* C3: VerifyAndRunGatherers returns without error if and only if every
\* gatherer of the policy is registered, every invoked gatherer succeeded and
\* every append left the just-added item within the per-item limit and the
\* batch within the aggregate limit; the batch then holds exactly one item
\* per policy entry.  Only the last append can have failed its size check,
\* and it was the last gatherer invoked.
C3_SizeLimitEnforcement ==
    /\ Returned =>
         /\ err = "" <=>
              /\ \A n \in Range(declared) : Registered(n)
              /\ \A i \in 1..Len(runs) : ~ registeredGatherers[runs[i]].fails
              /\ \A k \in 1..Len(items) : AppendWithinLimits(k)
         /\ err = "" =>
              /\ Len(items) = Len(declared)
              /\ {items[k].name : k \in 1..Len(items)} = Range(declared)
    /\ \A k \in 1..Len(items) :
         ~ AppendWithinLimits(k) =>
            /\ k = Len(items)
            /\ runs[Len(runs)] = items[k].name
            /\ pc \in {"returned", "done"}

C3_Witness ==
    /\ Returned
    /\ err = "Size limit exceeded"
    /\ Len(items) = 2
    /\ items[2].size <= 1000 * SizeLimitKBPerInventoryType
    /\ SliceSize(items) > 1000 * TotalSizeLimitKB

\* C4: SendDataToSSM is invoked only in a cycle whose policy file existed,
\* was read and decoded and whose VerifyAndRunGatherers visited the whole
\* policy without error; with the file absent, unreadable or undecodable no
\* gatherer is looked up or invoked; in a cycle that failed in either way
\* nothing is converted and nothing is sent.
C4_NoPartialSnapshotSent ==
    /\ sendCalls # <<>> =>
         /\ fileState = "ok"
         /\ err = ""
         /\ Range(lookups) = Range(declared)
         /\ Len(items) = Len(declared)
    /\ fileState # "ok" => (lookups = <<>> /\ runs = <<>>)
    /\ (fileState # "ok" \/ err # "") => (convertCalls = <<>> /\ sendCalls = <<>>)

C4_Witness ==
    /\ pc = "done"
    /\ err # ""
    /\ items # <<>>
    /\ convertCalls = <<>>
    /\ sendCalls = <<>>

\* C10: in a cycle where ConvertToSsmInventoryItems returned an error,
\* SendDataToSSM is not invoked: every send follows a successful conversion
\* of the collected batch and carries its result.
C10_NoSendAfterFailedConversion ==
    /\ Len(sendCalls) <= Len(convertCalls)
    /\ \A i \in 1..Len(sendCalls) :
         /\ ~ convertCalls[i].failed
         /\ sendCalls[i] = ConvertToSsmInventoryItems(convertCalls[i].arg)

(***************************************************************************)
(*                         ASSOCIATION PARSER                              *)
(***************************************************************************)

AssociationIds == {"assoc-1", "assoc-1.x"}
InstanceIds == {"i-1", "i-2"}
PluginNames == {"aws:runShellScript", "aws:psModule"}
StepNames == {"step1", "step2"}

\* Largest number of mainSteps in a document.
MaxSteps == 2

\* Readings of times.DefaultClock.Now(), in milliseconds after 2016-01-01T00:00:00Z.
ClockValues == {0, 1, 999, 1000, 1001}

\* rawData.Association.OutputLocation: absent, or an S3 location.
OutputLocations ==
    {Nil, [nil |-> FALSE, OutputS3BucketName |-> "b", OutputS3KeyPrefix |-> "p"]}

\* payload.DocumentContent once decoded; the settings and properties of a
\* plugin are copied through unread and are left out.
RuntimeConfigs == SUBSET PluginNames
MainStepsValues ==
    UNION {[1..n -> [Name : StepNames, Action : PluginNames]] : n \in 0..MaxSteps}
DocumentContents ==
    [SchemaVersion : {"1.2"}, RuntimeConfig : RuntimeConfigs, MainSteps : MainStepsValues]

\* *rawData.Document: a body json.Unmarshal rejects, or one it decodes.
Documents ==
    {[malformed |-> TRUE]} \cup
    {[malformed |-> FALSE, content |-> c] : c \in DocumentContents}

RawAssociations ==
    [AssociationId : AssociationIds, InstanceId : InstanceIds, Name : {"doc"},
     Document : Documents, OutputLocation : OutputLocations, DocumentID : {""}]

\* appconfig values read by InitializeDocumentState.
DefaultDataStorePath == "/var/lib/amazon/ssm"
DefaultDocumentRootDirName == "document"
OrchestrationRootDir == "orchestration"

\* path.Join / filepath.Join: empty elements are ignored, the rest joined by "/".
RECURSIVE PathJoin(_)
PathJoin(elems) ==
    IF elems = <<>> THEN ""
    ELSE LET rest == PathJoin(Tail(elems))
         IN  IF elems[1] = "" THEN rest
             ELSE IF rest = "" THEN elems[1]
             ELSE elems[1] \o "/" \o rest

\* fileutil.BuildS3Path and fileutil.BuildPath: the root joined with the
\* plugin's name as the final path segment.
BuildS3Path(root, name) == PathJoin(<<root, name>>)
BuildPath(root, name) == PathJoin(<<root, name>>)

Digit(n) == <<"0", "1", "2", "3", "4", "5", "6", "7", "8", "9">>[n + 1]

\* times.ToIsoDashUTC: the fixed-width layout 2006-01-02T15-04-05.000Z.
ToIsoDashUTC(t) ==
    "2016-01-01T00-00-0" \o Digit(t \div 1000) \o "."
        \o Digit((t % 1000) \div 100) \o Digit((t % 100) \div 10) \o Digit(t % 10)
        \o "Z"

newDocumentInfo_CommandID(rd, pl, t) ==
    [AssociationID |-> rd.AssociationId,
     InstanceID    |-> rd.InstanceId,
     MessageID     |-> "aws.ssm." \o rd.AssociationId \o "." \o rd.InstanceId,
     RunID         |-> ToIsoDashUTC(t),
     DocumentID    |-> rd.AssociationId,
     DocumentName  |-> pl.DocumentName]

\* newDocumentInfo: the clock is read once, for RunID.
newDocumentInfo(rd, pl, t) ==
    LET RunID == ToIsoDashUTC(t)
    IN  [AssociationID |-> rd.AssociationId,
         InstanceID    |-> rd.InstanceId,
         MessageID     |-> "aws.ssm." \o rd.AssociationId \o "." \o rd.InstanceId,
         RunID         |-> RunID,
         DocumentID    |-> rd.AssociationId \o "." \o RunID,
         DocumentName  |-> pl.DocumentName]

PluginState(id, name, pl, documentInfo, s3KeyPrefix, orchestrationDir) ==
    [Id |-> id,
     Name |-> name,
     HasExecuted |-> FALSE,
     Configuration |->
        [OutputS3BucketName     |-> pl.OutputS3BucketName,
         OutputS3KeyPrefix      |-> BuildS3Path(s3KeyPrefix, name),
         OrchestrationDirectory |-> BuildPath(orchestrationDir, name),
         MessageId              |-> documentInfo.MessageID,
         BookKeepingFileName    |-> documentInfo.DocumentID]]

\* buildPluginsInfo without the return that ends the runtimeConfig branch.
buildPluginsInfo_FallThrough(pl, documentInfo, s3KeyPrefix, orchestrationDir, ds) ==
    LET RuntimeConfig == pl.DocumentContent.RuntimeConfig
        MainSteps == pl.DocumentContent.MainSteps
        withMap ==
            IF RuntimeConfig # {}
            THEN [ds EXCEPT !.PluginsInformation =
                    [key \in RuntimeConfig |->
                        PluginState(key, key, pl, documentInfo, s3KeyPrefix, orchestrationDir)]]
            ELSE ds
    IN  IF MainSteps # <<>>
        THEN [withMap EXCEPT !.InstancePluginsInformation =
                [index \in 1..Len(MainSteps) |->
                    PluginState(MainSteps[index].Name, MainSteps[index].Action,
                                pl, documentInfo, s3KeyPrefix, orchestrationDir)]]
        ELSE withMap

\* buildPluginsInfo with the step's name and action exchanged.
buildPluginsInfo_SwapIdName(pl, documentInfo, s3KeyPrefix, orchestrationDir, ds) ==
    LET RuntimeConfig == pl.DocumentContent.RuntimeConfig
        MainSteps == pl.DocumentContent.MainSteps
    IN  IF RuntimeConfig # {}
        THEN [ds EXCEPT !.PluginsInformation =
                [key \in RuntimeConfig |->
                    PluginState(key, key, pl, documentInfo, s3KeyPrefix, orchestrationDir)]]
        ELSE IF MainSteps # <<>>
        THEN [ds EXCEPT !.InstancePluginsInformation =
                [index \in 1..Len(MainSteps) |->
                    PluginState(MainSteps[index].Action, MainSteps[index].Name,
                                pl, documentInfo, s3KeyPrefix, orchestrationDir)]]
        ELSE ds

\* buildPluginsInfo: the name-keyed map when runtimeConfig is non-empty, else
\* the sequence when mainSteps is non-empty, else neither.
buildPluginsInfo(pl, documentInfo, s3KeyPrefix, orchestrationDir, ds) ==
    LET RuntimeConfig == pl.DocumentContent.RuntimeConfig
        MainSteps == pl.DocumentContent.MainSteps
    IN  IF RuntimeConfig # {}
        THEN [ds EXCEPT !.PluginsInformation =
                [key \in RuntimeConfig |->
                    PluginState(key, key, pl, documentInfo, s3KeyPrefix, orchestrationDir)]]
        ELSE IF MainSteps # <<>>
        THEN [ds EXCEPT !.InstancePluginsInformation =
                [index \in 1..Len(MainSteps) |->
                    PluginState(MainSteps[index].Name, MainSteps[index].Action,
                                pl, documentInfo, s3KeyPrefix, orchestrationDir)]]
        ELSE ds

\* The s3KeyPrefix of InitializeDocumentState with the document id in place
\* of payload.CommandID.
S3KeyPrefix_DocumentID(pl, documentInfo) ==
    PathJoin(<<pl.OutputS3KeyPrefix, documentInfo.DocumentID, documentInfo.InstanceID>>)

\* s3KeyPrefix := path.Join(payload.OutputS3KeyPrefix, payload.CommandID, documentInfo.InstanceID)
S3KeyPrefix(pl, documentInfo) ==
    PathJoin(<<pl.OutputS3KeyPrefix, pl.CommandID, documentInfo.InstanceID>>)

OrchestrationDir(documentInfo) ==
    PathJoin(<<PathJoin(<<DefaultDataStorePath, documentInfo.InstanceID,
                         DefaultDocumentRootDirName, OrchestrationRootDir>>),
               documentInfo.DocumentID>>)

ParserInit ==
    /\ rawData \in RawAssociations
    /\ now \in ClockValues
    /\ ppc = "received"
    /\ payload = Nil
    /\ docState = Nil
    /\ fileState = "absent"
    /\ declared = <<>>
    /\ registeredGatherers = <<>>
    /\ pc = "off"
    /\ CycleReset

\* ParseDocumentWithParams: nil and an error when the document body does
\* not decode or messageParser.ReplacePluginParameters fails, else the
\* payload.
ParseDocumentWithParams ==
    /\ ppc = "received"
    /\ \E replaceErr \in BOOLEAN :
         IF rawData.Document.malformed \/ replaceErr
         THEN /\ ppc' = "rejected"
              /\ UNCHANGED payload
         ELSE /\ ppc' = "parsed"
              /\ payload' =
                   [DocumentContent    |-> rawData.Document.content,
                    DocumentName       |-> rawData.Name,
                    CommandID          |-> rawData.AssociationId,
                    OutputS3KeyPrefix  |-> IF rawData.OutputLocation.nil THEN ""
                                           ELSE rawData.OutputLocation.OutputS3KeyPrefix,
                    OutputS3BucketName |-> IF rawData.OutputLocation.nil THEN ""
                                           ELSE rawData.OutputLocation.OutputS3BucketName]
    /\ UNCHANGED <<rawData, now, docState>>

\* InitializeDocumentState, newDocumentInfo's write to rawData.DocumentID
\* included.
InitializeDocumentState ==
    /\ ppc = "parsed"
    /\ LET documentInfo == newDocumentInfo(rawData, payload, now)
           s3KeyPrefix == S3KeyPrefix(payload, documentInfo)
           orchestrationDir == OrchestrationDir(documentInfo)
           ds == [DocumentInformation        |-> documentInfo,
                  DocumentType               |-> "Association",
                  SchemaVersion              |-> payload.DocumentContent.SchemaVersion,
                  PluginsInformation         |-> <<>>,
                  InstancePluginsInformation |-> <<>>]
       IN  /\ docState' = buildPluginsInfo(payload, documentInfo, s3KeyPrefix,
                                           orchestrationDir, ds)
           /\ rawData' = [rawData EXCEPT !.DocumentID = documentInfo.DocumentID]
    /\ ppc' = "compiled"
    /\ UNCHANGED <<now, payload>>

ParserNext ==
    \/ ParseDocumentWithParams /\ UNCHANGED invVars
    \/ InitializeDocumentState /\ UNCHANGED invVars

ParserSpec == ParserInit /\ [][ParserNext]_vars

(***************************************************************************)
(*                     ASSOCIATION PARSER: properties                      *)
(***************************************************************************)

Compiled == ppc = "compiled"

\* The plugin units of the compiled document state, from either collection.
Units ==
    {docState.PluginsInformation[k] : k \in DOMAIN docState.PluginsInformation}
        \cup {docState.InstancePluginsInformation[i] :
                 i \in DOMAIN docState.InstancePluginsInformation}

\* C5: the document state never has both collections populated; a non-empty
\* runtimeConfig gives the map, one unit per key, and no sequence, also when
\* mainSteps is non-empty too; otherwise a non-empty mainSteps gives only the
\* sequence; otherwise neither is populated.
C5_ExactlyOneCollection ==
    Compiled =>
        LET RuntimeConfig == payload.DocumentContent.RuntimeConfig
            MainSteps == payload.DocumentContent.MainSteps
            map == docState.PluginsInformation
            sequence == docState.InstancePluginsInformation
        IN  /\ ~ (DOMAIN map # {} /\ DOMAIN sequence # {})
            /\ RuntimeConfig # {} => (DOMAIN map = RuntimeConfig /\ sequence = <<>>)
            /\ (RuntimeConfig = {} /\ MainSteps # <<>>) =>
                    (DOMAIN map = {} /\ DOMAIN sequence # {})
            /\ (RuntimeConfig = {} /\ MainSteps = <<>>) =>
                    (DOMAIN map = {} /\ DOMAIN sequence = {})

C5_Witness ==
    /\ Compiled
    /\ payload.DocumentContent.RuntimeConfig # {}
    /\ payload.DocumentContent.MainSteps # <<>>
    /\ DOMAIN docState.PluginsInformation # {}

\* C6: with mainSteps non-empty and runtimeConfig empty the sequence has
\* length len(mainSteps) and its i-th unit has the i-th step's name as id and
\* the i-th step's action as name; in the map form id and name are the key.
C6_StepOrderPreserved ==
    Compiled =>
        LET RuntimeConfig == payload.DocumentContent.RuntimeConfig
            MainSteps == payload.DocumentContent.MainSteps
            map == docState.PluginsInformation
            sequence == docState.InstancePluginsInformation
        IN  /\ (RuntimeConfig = {} /\ MainSteps # <<>>) =>
                 /\ Len(sequence) = Len(MainSteps)
                 /\ \A i \in 1..Len(MainSteps) :
                      /\ sequence[i].Id = MainSteps[i].Name
                      /\ sequence[i].Name = MainSteps[i].Action
            /\ \A key \in DOMAIN map :
                 /\ key \in RuntimeConfig
                 /\ map[key].Id = key
                 /\ map[key].Name = key

C6_Witness ==
    /\ Compiled
    /\ payload.DocumentContent.RuntimeConfig = {}
    /\ Len(docState.InstancePluginsInformation) = 2
    /\ docState.InstancePluginsInformation[1].Id # docState.InstancePluginsInformation[2].Id
    /\ docState.InstancePluginsInformation[1].Name # docState.InstancePluginsInformation[2].Name

KeyPrefixOf(rd) ==
    IF rd.OutputLocation.nil THEN "" ELSE rd.OutputLocation.OutputS3KeyPrefix \o "/"

\* C7 (as stated): every unit's OutputS3KeyPrefix is the caller's key prefix,
\* then "<associationId>.<runId>", then the instance id, then the plugin
\* name or action.
C7_PrefixWithRunId ==
    Compiled =>
        \A u \in Units :
            u.Configuration.OutputS3KeyPrefix =
                KeyPrefixOf(rawData) \o rawData.AssociationId \o "." \o ToIsoDashUTC(now)
                    \o "/" \o rawData.InstanceId \o "/" \o u.Name

\* C7 (amended): every unit's OutputS3KeyPrefix is the caller's key prefix,
\* then the association id (payload.CommandID, without run id), then the
\* instance id, then the plugin name or action; for "assoc-1" on "i-1" with
\* key prefix "p" and the step {step1, aws:runShellScript} it is
\* "p/assoc-1/i-1/aws:runShellScript".
C7_PrefixWithAssociationId ==
    Compiled =>
        /\ \A u \in Units :
              u.Configuration.OutputS3KeyPrefix =
                  KeyPrefixOf(rawData) \o rawData.AssociationId
                      \o "/" \o rawData.InstanceId \o "/" \o u.Name
        /\ ( /\ rawData.AssociationId = "assoc-1"
             /\ rawData.InstanceId = "i-1"
             /\ ~ rawData.OutputLocation.nil
             /\ payload.DocumentContent.RuntimeConfig = {}
             /\ payload.DocumentContent.MainSteps =
                    <<[Name |-> "step1", Action |-> "aws:runShellScript"]>> )
           => /\ Len(docState.InstancePluginsInformation) = 1
              /\ docState.InstancePluginsInformation[1].Configuration.OutputS3KeyPrefix
                    = "p/assoc-1/i-1/aws:runShellScript"

C7_Witness ==
    /\ Compiled
    /\ rawData.AssociationId = "assoc-1"
    /\ rawData.InstanceId = "i-1"
    /\ ~ rawData.OutputLocation.nil
    /\ payload.DocumentContent.RuntimeConfig = {}
    /\ payload.DocumentContent.MainSteps =
           <<[Name |-> "step1", Action |-> "aws:runShellScript"]>>

\* C8: within one document state any two plugin units with different ids
\* have different OutputS3KeyPrefix values and different
\* OrchestrationDirectory values, in the map form and in the step form.
C8_IsolatedNamespaces ==
    Compiled =>
        \A u, v \in Units :
            u.Id # v.Id =>
                /\ u.Configuration.OutputS3KeyPrefix # v.Configuration.OutputS3KeyPrefix
                /\ u.Configuration.OrchestrationDirectory
                      # v.Configuration.OrchestrationDirectory

====
